---- MODULE Spec2Model ----
(***************************************************************************)
(* The session/profile store of src/src/store/authStore.ts (a zustand      *)
(* store over the supabase client).  Every remote call is a suspension     *)
(* point: an operation is split into the synchronous run up to its first   *)
(* await and one continuation per response.  The calls in flight are the  *)
(* bag `calls`; the identity-change handler registered by initialize runs  *)
(* as one more asynchronous call.                                          *)
(***************************************************************************)
EXTENDS Integers, FiniteSets, Bags, TLC

\* ---- bounds ------------------------------------------------------------
\* number of store calls (incl. handler runs) that may be suspended at once
MaxCalls == 2
\* number of distinct identities the provider may hand out
NumIds == 2
\* number of calls and provider events a behaviour is followed through
MaxOps == 3

Ids == 1..NumIds

\* ---- values ------------------------------------------------------------
\* `null` for user / session (an identity is represented by its id)
NoUser == 0
\* `null` for error
NoError == "<null>"
\* `null` for profile
NoProfile == [id |-> 0, name |-> "<null>"]

\* Profile rows: the id and one user-editable field
Names == {"seed", "edited"}
Profile(i, n) == [id |-> i, name |-> n]

\* name a lazily created profile is seeded with
SeedName(i) == "seed"

\* messages carried by errors of the provider's sign-in
AuthErrMsgs == {"", "Email not confirmed", "Invalid login credentials"}
\* messages carried by other remote failures
RemoteErrMsgs == {"", "Failed to fetch"}

\* messages carried by what getSession or the subscription throws
ThrownMsgs == {"Failed to fetch"}

\* `error.message || fallback`
MsgOr(m, fallback) == IF m = "" THEN fallback ELSE m

\* events of onAuthStateChange
Events == {"SIGNED_IN", "TOKEN_REFRESHED", "USER_UPDATED", "SIGNED_OUT"}
FetchEvents == {"SIGNED_IN", "TOKEN_REFRESHED"}

VARIABLES
  user,           \* AuthState.user     (identity id or NoUser)
  profile,        \* AuthState.profile
  session,        \* AuthState.session  (id of the session's user or NoUser)
  isLoading,      \* AuthState.isLoading
  isInitialized,  \* AuthState.isInitialized
  error,          \* AuthState.error
  db,             \* the remote `profiles` table: id -> row or NoProfile
  handlers,       \* number of callbacks registered with onAuthStateChange
  calls,          \* the suspended calls: a bag of call records
  started,        \* calls made and events delivered so far
  last,           \* the call the latest step settled, and how (Quiet if none)
  fetched         \* history, kept under TrackedSpec only: what the latest
                  \* completed fetchProfile() call left, while no
                  \* updateProfile and no change of user has followed it

vars == <<user, profile, session, isLoading, isInitialized, error, db,
          handlers, calls, started, last, fetched>>

store == <<user, profile, session, isLoading, isInitialized, error>>

\* ---- calls -------------------------------------------------------------
\* no completed fetchProfile() call to compare with
NoFetch == [uid |-> NoUser, profile |-> NoProfile, fp |-> "none", prev |-> "none"]

\* the history of fetchProfile() calls is not kept
Untracked == [uid |-> NoUser, profile |-> NoProfile, fp |-> "off", prev |-> "off"]

\* the history becomes x, if it is kept
Track(x) ==
  fetched' = IF fetched = Untracked THEN Untracked ELSE x

\* a call record: the operation, where it is suspended, the user it captured,
\* for updateProfile the update it sends and, for fetchProfile(), what the
\* call completed before it left (first)
Call(op, pc, uid) ==
  [op |-> op, pc |-> pc, uid |-> uid, upd |-> "<null>",
   sawSignOut |-> FALSE, afterLogin |-> FALSE, first |-> NoFetch]

\* the calls in flight
InFlight == BagToSet(calls)

\* what a step reports: the call it settled (op, res: resolved or rejected,
\* path: the branch taken) and the outcome of the fetchProfile run that ended
\* in it (fp), if any
Settled(op, res, path, al) ==
  [op |-> op, res |-> res, path |-> path, afterLogin |-> al, fp |-> "none"]

\* the step settled no call
Quiet == Settled("none", "none", "none", FALSE)

\* one more call or event, while the behaviour is followed
Charge ==
  /\ started < MaxOps
  /\ started' = started + 1

\* one more call may be suspended
HasRoom == BagCardinality(calls) < MaxCalls

\* a new call r is suspended at its first await
Suspend(r) ==
  /\ HasRoom
  /\ calls' = calls (+) SetToBag({r})

\* the suspended call r goes on to its next await, as r2
Resume(r, r2) ==
  calls' = (calls (-) SetToBag({r})) (+) SetToBag({r2})

\* the suspended call r returns
Return(r) ==
  calls' = calls (-) SetToBag({r})

\* the call r settles
Settle(r, res, path) ==
  /\ last' = Settled(r.op, res, path, r.afterLogin)
  /\ Return(r)

InitStore ==
  /\ user = NoUser
  /\ profile = NoProfile
  /\ session = NoUser
  /\ isLoading = FALSE
  /\ isInitialized = FALSE
  /\ error = NoError
  /\ db = [i \in Ids |-> NoProfile]
  /\ handlers = 0
  /\ calls = EmptyBag
  /\ started = 0
  /\ last = Quiet

Init ==
  /\ InitStore
  /\ fetched = Untracked

\* the same, with the history of fetchProfile() calls kept
InitTracked ==
  /\ InitStore
  /\ fetched = NoFetch

\* ---- fetchProfile (authStore.ts 201-242) ---------------------------------
\* what the fetchProfile() call r leaves as it completes: the profile now
\* stored, how the call ended and, if it started after another call had
\* completed with nothing in between, how that one ended
FetchedBy(r, outcome) ==
  IF r.uid = user
    THEN [uid |-> r.uid, profile |-> profile', fp |-> outcome,
          prev |-> IF r.first # NoFetch /\ r.first = fetched
                     THEN r.first.fp ELSE "none"]
    ELSE NoFetch

\* a step that stores u as user ends the comparison unless u is the user
KeepFetchedFor(u) ==
  Track(IF u = user THEN fetched ELSE NoFetch)

\* fetchProfile returns to whoever awaited it.  initialize goes on to
\* register its handler; login, the handler and a direct call settle.
FetchReturn(r, outcome) ==
  IF r.op = "initialize"
    THEN /\ Resume(r, [r EXCEPT !.pc = "subscribe"])
         /\ last' = [Quiet EXCEPT !.fp = outcome]
         /\ UNCHANGED fetched
    ELSE /\ Return(r)
         /\ last' = [Settled(r.op, "resolved", "ok", FALSE)
                       EXCEPT !.fp = outcome]
         /\ Track(IF r.op = "fetchProfile"
                    THEN FetchedBy(r, outcome)
                    ELSE fetched)

\* `set({ profile: data })` of line 236
SetFetchedProfile(r) ==
  profile' = db[r.uid]

\* lines 202-203, user == null: return at once
FetchProfileNoUser ==
  /\ Charge
  /\ user = NoUser
  /\ last' = [Settled("fetchProfile", "resolved", "noUser", FALSE)
                EXCEPT !.fp = "noUser"]
  /\ UNCHANGED <<store, db, handlers, calls>>
  /\ UNCHANGED fetched

\* lines 202-210: capture user, issue the select
FetchProfileStart ==
  /\ Charge
  /\ user # NoUser
  /\ Suspend([Call("fetchProfile", "fp_select", user) EXCEPT !.first = fetched])
  /\ UNCHANGED <<store, db, handlers, fetched>>
  /\ last' = Quiet

\* the select returns the row
FetchFound ==
  \E r \in InFlight :
    /\ r.pc = "fp_select"
    /\ db[r.uid] # NoProfile
    /\ SetFetchedProfile(r)
    /\ FetchReturn(r, "found")
    /\ UNCHANGED <<user, session, isLoading, isInitialized, error, db, handlers>>
    /\ UNCHANGED started

\* the select returns error.code === 'PGRST116': issue the insert
FetchNotFound ==
  \E r \in InFlight :
    /\ r.pc = "fp_select"
    /\ db[r.uid] = NoProfile
    /\ Resume(r, [r EXCEPT !.pc = "fp_insert"])
    /\ UNCHANGED <<store, db, handlers>>
    /\ last' = Quiet
    /\ UNCHANGED started
    /\ UNCHANGED fetched

\* mutant: a catch that surfaces the lookup failure in error
FetchSelectErrorSetsError ==
  \E r \in InFlight :
    /\ r.pc = "fp_select"
    /\ error' = "Failed to fetch"
    /\ UNCHANGED <<user, profile, session, isLoading, isInitialized, db, handlers>>
    /\ FetchReturn(r, "fetchError")
    /\ UNCHANGED started

\* the select fails with any other error: thrown at 233, logged at 238
FetchSelectError ==
  \E r \in InFlight :
    /\ r.pc = "fp_select"
    /\ UNCHANGED <<store, db, handlers>>
    /\ FetchReturn(r, "fetchError")
    /\ UNCHANGED started

\* mutant: a create that stores another record than the inserted row
FetchCreatedOtherRecord ==
  \E r \in InFlight :
    /\ r.pc = "fp_insert"
    /\ db[r.uid] = NoProfile
    /\ db' = [db EXCEPT ![r.uid] = Profile(r.uid, SeedName(r.uid))]
    /\ profile' = Profile(r.uid, "edited")
    /\ FetchReturn(r, "created")
    /\ UNCHANGED <<user, session, isLoading, isInitialized, error, handlers>>
    /\ UNCHANGED started

\* the insert succeeds: `set({ profile: newProfile })`
FetchCreated ==
  \E r \in InFlight :
    /\ r.pc = "fp_insert"
    /\ db[r.uid] = NoProfile
    /\ db' = [db EXCEPT ![r.uid] = Profile(r.uid, SeedName(r.uid))]
    /\ profile' = Profile(r.uid, SeedName(r.uid))
    /\ FetchReturn(r, "created")
    /\ UNCHANGED <<user, session, isLoading, isInitialized, error, handlers>>
    /\ UNCHANGED started

\* the insert fails (duplicate key, transport): logged at 226, return
FetchCreateError ==
  \E r \in InFlight :
    /\ r.pc = "fp_insert"
    /\ UNCHANGED <<store, db, handlers>>
    /\ FetchReturn(r, "createError")
    /\ UNCHANGED started

\* ---- initialize (authStore.ts 43-96) ------------------------------------
InitializeStart ==
  /\ Charge
  /\ Suspend(Call("initialize", "getSession", NoUser))
  /\ UNCHANGED <<store, db, handlers>>
  /\ last' = Quiet
  /\ UNCHANGED fetched

\* getSession returns a session: lines 52-60, then fetchProfile's 202-210
InitializeSession(i) ==
  \E r \in InFlight :
    /\ r.pc = "getSession"
    /\ user' = i
    /\ session' = i
    /\ isInitialized' = TRUE
    /\ Resume(r, [r EXCEPT !.pc = "fp_select", !.uid = i])
    /\ UNCHANGED <<profile, isLoading, error, db, handlers>>
    /\ last' = Quiet
    /\ UNCHANGED started
    /\ KeepFetchedFor(i)

\* getSession returns no session (with or without an error, which is only
\* logged): line 62, then the subscription of 66
InitializeNoSession(withError) ==
  \E r \in InFlight :
    /\ r.pc = "getSession"
    /\ isInitialized' = TRUE
    /\ handlers' = handlers + 1
    /\ Settle(r, "resolved", IF withError THEN "sessionError" ELSE "noSession")
    /\ UNCHANGED <<user, profile, session, isLoading, error, db>>
    /\ UNCHANGED started
    /\ UNCHANGED fetched

\* mutant: a catch that records the error but not the initialization
InitializeThrowsUninitialized(m) ==
  \E r \in InFlight :
    /\ r.pc = "getSession"
    /\ error' = m
    /\ Settle(r, "resolved", "threw")
    /\ UNCHANGED <<user, profile, session, isLoading, isInitialized, db, handlers>>
    /\ UNCHANGED started
    /\ UNCHANGED fetched

\* getSession throws, or returns no session and the subscription of 66
\* throws after line 62: the catch of 89-95
InitializeThrows(m) ==
  \E r \in InFlight :
    /\ r.pc = "getSession"
    /\ error' = m
    /\ isInitialized' = TRUE
    /\ Settle(r, "resolved", "threw")
    /\ UNCHANGED <<user, profile, session, isLoading, db, handlers>>
    /\ UNCHANGED started
    /\ UNCHANGED fetched

\* after the awaited fetchProfile: the subscription of 66
InitializeSubscribe ==
  \E r \in InFlight :
    /\ r.pc = "subscribe"
    /\ handlers' = handlers + 1
    /\ Settle(r, "resolved", "session")
    /\ UNCHANGED <<store, db>>
    /\ UNCHANGED started
    /\ UNCHANGED fetched

\* after the awaited fetchProfile the subscription of 66 throws: the catch
\* of 89-95
InitializeSubscribeThrows(m) ==
  \E r \in InFlight :
    /\ r.pc = "subscribe"
    /\ error' = m
    /\ isInitialized' = TRUE
    /\ Settle(r, "resolved", "threw")
    /\ UNCHANGED <<user, profile, session, isLoading, db, handlers>>
    /\ UNCHANGED started
    /\ UNCHANGED fetched

\* ---- login (authStore.ts 98-133) ----------------------------------------
ConfirmEmailMsg ==
  "Please confirm your email address by clicking the link in the email we sent you."

\* lines 107-113: the error login throws for a provider error with message m
LoginThrown(m) ==
  IF m = "Email not confirmed" THEN ConfirmEmailMsg ELSE m

LoginStart ==
  /\ Charge
  /\ isLoading' = TRUE
  /\ error' = NoError
  /\ Suspend(Call("login", "signIn", NoUser))
  /\ UNCHANGED <<user, profile, session, isInitialized, db, handlers>>
  /\ last' = Quiet
  /\ UNCHANGED fetched

\* mutant: a catch that records the failure but does not rethrow it
LoginErrorResolves(m) ==
  \E r \in InFlight :
    /\ r.pc = "signIn"
    /\ error' = MsgOr(LoginThrown(m), "Login failed")
    /\ isLoading' = FALSE
    /\ Settle(r, "resolved", "error")
    /\ UNCHANGED <<user, profile, session, isInitialized, db, handlers>>
    /\ UNCHANGED started
    /\ UNCHANGED fetched

\* signInWithPassword returns an error or throws: 107-113, catch 125-132
LoginError(m) ==
  \E r \in InFlight :
    /\ r.pc = "signIn"
    /\ error' = MsgOr(LoginThrown(m), "Login failed")
    /\ isLoading' = FALSE
    /\ Settle(r, "rejected", "error")
    /\ UNCHANGED <<user, profile, session, isInitialized, db, handlers>>
    /\ UNCHANGED started
    /\ UNCHANGED fetched

\* signInWithPassword returns a user: 115-123, then fetchProfile's 202-210
LoginSuccess(i) ==
  \E r \in InFlight :
    /\ r.pc = "signIn"
    /\ user' = i
    /\ session' = i
    /\ isLoading' = FALSE
    /\ Resume(r, [r EXCEPT !.pc = "fp_select", !.uid = i])
    /\ UNCHANGED <<profile, isInitialized, error, db, handlers>>
    /\ last' = Quiet
    /\ UNCHANGED started
    /\ KeepFetchedFor(i)

\* signInWithPassword returns neither an error nor a user: nothing is set
LoginNoUser ==
  \E r \in InFlight :
    /\ r.pc = "signIn"
    /\ Settle(r, "resolved", "noUser")
    /\ UNCHANGED <<store, db, handlers>>
    /\ UNCHANGED started
    /\ UNCHANGED fetched

\* ---- signup (authStore.ts 135-176) --------------------------------------
ConfirmationPendingMsg ==
  "Please check your email and click the confirmation link to complete your registration."

SignupStart ==
  /\ Charge
  /\ isLoading' = TRUE
  /\ error' = NoError
  /\ Suspend(Call("signup", "signUp", NoUser))
  /\ UNCHANGED <<user, profile, session, isInitialized, db, handlers>>
  /\ last' = Quiet
  /\ UNCHANGED fetched

\* signUp returns an error or throws: 149, catch 168-175
SignupError(m) ==
  \E r \in InFlight :
    /\ r.pc = "signUp"
    /\ error' = MsgOr(m, "Signup failed")
    /\ isLoading' = FALSE
    /\ Settle(r, "rejected", "error")
    /\ UNCHANGED <<user, profile, session, isInitialized, db, handlers>>
    /\ UNCHANGED started
    /\ UNCHANGED fetched

\* mutant: a signup that stores the unconfirmed identity
SignupPendingPopulates(i) ==
  \E r \in InFlight :
    /\ r.pc = "signUp"
    /\ user' = i
    /\ session' = i
    /\ error' = ConfirmationPendingMsg
    /\ isLoading' = FALSE
    /\ Settle(r, "resolved", "pending")
    /\ UNCHANGED <<profile, isInitialized, db, handlers>>
    /\ UNCHANGED started
    /\ KeepFetchedFor(i)

\* signUp returns a user without email_confirmed_at: 153-159
SignupPending(i) ==
  \E r \in InFlight :
    /\ r.pc = "signUp"
    /\ error' = ConfirmationPendingMsg
    /\ isLoading' = FALSE
    /\ Settle(r, "resolved", "pending")
    /\ UNCHANGED <<user, profile, session, isInitialized, db, handlers>>
    /\ UNCHANGED started
    /\ UNCHANGED fetched

\* signUp returns a confirmed user: 161-167
SignupSuccess(i) ==
  \E r \in InFlight :
    /\ r.pc = "signUp"
    /\ user' = i
    /\ session' = i
    /\ isLoading' = FALSE
    /\ Settle(r, "resolved", "ok")
    /\ UNCHANGED <<profile, isInitialized, error, db, handlers>>
    /\ UNCHANGED started
    /\ KeepFetchedFor(i)

\* signUp returns neither an error nor a user
SignupNoUser ==
  \E r \in InFlight :
    /\ r.pc = "signUp"
    /\ Settle(r, "resolved", "noUser")
    /\ UNCHANGED <<store, db, handlers>>
    /\ UNCHANGED started
    /\ UNCHANGED fetched

\* ---- logout (authStore.ts 178-199) --------------------------------------
\* afterLogin remembers that the call settled just before was a successful login
LogoutStart ==
  /\ Charge
  /\ isLoading' = TRUE
  /\ error' = NoError
  /\ Suspend([Call("logout", "signOut", NoUser) EXCEPT
                !.afterLogin = (last.op = "login" /\ last.path = "ok")])
  /\ UNCHANGED <<user, profile, session, isInitialized, db, handlers>>
  /\ last' = Quiet
  /\ UNCHANGED fetched

\* mutant: a successful logout that leaves the profile in place
LogoutSuccessKeepsProfile ==
  \E r \in InFlight :
    /\ r.pc = "signOut"
    /\ user' = NoUser
    /\ session' = NoUser
    /\ isLoading' = FALSE
    /\ Settle(r, "resolved", "ok")
    /\ UNCHANGED <<profile, isInitialized, error, db, handlers>>
    /\ UNCHANGED started
    /\ KeepFetchedFor(NoUser)

\* signOut succeeds: 186-191
LogoutSuccess ==
  \E r \in InFlight :
    /\ r.pc = "signOut"
    /\ user' = NoUser
    /\ profile' = NoProfile
    /\ session' = NoUser
    /\ isLoading' = FALSE
    /\ Settle(r, "resolved", "ok")
    /\ UNCHANGED <<isInitialized, error, db, handlers>>
    /\ UNCHANGED started
    /\ KeepFetchedFor(NoUser)

\* mutant: a logout that clears the state although signOut failed
LogoutErrorClears(m) ==
  \E r \in InFlight :
    /\ r.pc = "signOut"
    /\ user' = NoUser
    /\ profile' = NoProfile
    /\ session' = NoUser
    /\ error' = MsgOr(m, "Logout failed")
    /\ isLoading' = FALSE
    /\ Settle(r, "resolved", "error")
    /\ UNCHANGED <<isInitialized, db, handlers>>
    /\ UNCHANGED started
    /\ KeepFetchedFor(NoUser)

\* signOut returns an error or throws: 184, catch 192-198 (no rethrow)
LogoutError(m) ==
  \E r \in InFlight :
    /\ r.pc = "signOut"
    /\ error' = MsgOr(m, "Logout failed")
    /\ isLoading' = FALSE
    /\ Settle(r, "resolved", "error")
    /\ UNCHANGED <<user, profile, session, isInitialized, db, handlers>>
    /\ UNCHANGED started
    /\ UNCHANGED fetched

\* ---- updateProfile (authStore.ts 244-271) -------------------------------
\* lines 245-246, user == null: return at once
UpdateProfileNoUser ==
  /\ Charge
  /\ user = NoUser
  /\ last' = Settled("updateProfile", "resolved", "noUser", FALSE)
  /\ UNCHANGED <<store, db, handlers, calls>>
  /\ Track(NoFetch)

\* lines 245-256: capture user, set isLoading, issue the update
UpdateProfileStart(n) ==
  /\ Charge
  /\ user # NoUser
  /\ isLoading' = TRUE
  /\ error' = NoError
  /\ Suspend([Call("updateProfile", "update", user) EXCEPT !.upd = n])
  /\ UNCHANGED <<user, profile, session, isInitialized, db, handlers>>
  /\ last' = Quiet
  /\ Track(NoFetch)

\* the update returns the updated row: 260-263
UpdateProfileSuccess ==
  \E r \in InFlight :
    /\ r.pc = "update"
    /\ db[r.uid] # NoProfile
    /\ db' = [db EXCEPT ![r.uid].name = r.upd]
    /\ profile' = Profile(r.uid, r.upd)
    /\ isLoading' = FALSE
    /\ Settle(r, "resolved", "ok")
    /\ UNCHANGED <<user, session, isInitialized, error, handlers>>
    /\ UNCHANGED started
    /\ Track(NoFetch)

\* mutant: a catch that also drops the session
UpdateProfileErrorDropsSession(m) ==
  \E r \in InFlight :
    /\ r.pc = "update"
    /\ session' = NoUser
    /\ error' = MsgOr(m, "Failed to update profile")
    /\ isLoading' = FALSE
    /\ Settle(r, "resolved", "error")
    /\ UNCHANGED <<user, profile, isInitialized, db, handlers>>
    /\ UNCHANGED started
    /\ Track(NoFetch)

\* the update fails (no row, transport): 258, catch 264-270 (no rethrow)
UpdateProfileError(m) ==
  \E r \in InFlight :
    /\ r.pc = "update"
    /\ error' = MsgOr(m, "Failed to update profile")
    /\ isLoading' = FALSE
    /\ Settle(r, "resolved", "error")
    /\ UNCHANGED <<user, profile, session, isInitialized, db, handlers>>
    /\ UNCHANGED started
    /\ Track(NoFetch)

\* ---- clearError (authStore.ts 273-275) ----------------------------------
ClearError ==
  /\ Charge
  /\ error' = NoError
  /\ UNCHANGED <<user, profile, session, isLoading, isInitialized, db,
                 handlers, calls>>
  /\ last' = Quiet
  /\ UNCHANGED fetched

\* ---- the onAuthStateChange handler (authStore.ts 66-88) -----------------
\* One run of a registered handler.  Every registered handler runs the same
\* code on the same event, so a delivery to several handlers is several of
\* these steps in a row.

\* a session arrives with an event that fetches: 70-78, fetchProfile's 202-210
NotifyFetch(ev, i) ==
  /\ Charge
  /\ handlers > 0
  /\ ev \in FetchEvents
  /\ user' = i
  /\ session' = i
  /\ error' = NoError
  /\ Suspend(Call("handler", "fp_select", i))
  /\ UNCHANGED <<profile, isLoading, isInitialized, db, handlers>>
  /\ last' = Quiet
  /\ KeepFetchedFor(i)

\* a session arrives with any other event: 70-74
NotifySession(ev, i) ==
  /\ Charge
  /\ handlers > 0
  /\ ev \in Events \ (FetchEvents \cup {"SIGNED_OUT"})
  /\ user' = i
  /\ session' = i
  /\ error' = NoError
  /\ last' = Settled("handler", "resolved", "noFetch", FALSE)
  /\ UNCHANGED <<profile, isLoading, isInitialized, db, handlers, calls>>
  /\ KeepFetchedFor(i)

\* the bag of calls after a signed-out delivery: the updateProfile calls
\* suspended on their update are marked sawSignOut
MarkSignedOut(r) ==
  IF r.pc = "update" THEN [r EXCEPT !.sawSignOut = TRUE] ELSE r

Unmarked(r) == [r EXCEPT !.sawSignOut = FALSE]

\* no session arrives: 81-86
NotifySignedOut ==
  /\ Charge
  /\ handlers > 0
  /\ user' = NoUser
  /\ profile' = NoProfile
  /\ session' = NoUser
  /\ error' = NoError
  /\ calls' = IF \A q \in InFlight : q.pc # "update"
                THEN calls
                ELSE [r \in {MarkSignedOut(q) : q \in InFlight} |->
                        IF r.pc = "update"
                          THEN CopiesIn(r, calls) + CopiesIn(Unmarked(r), calls)
                          ELSE CopiesIn(r, calls)]
  /\ last' = Settled("handler", "resolved", "signedOut", FALSE)
  /\ UNCHANGED <<isLoading, isInitialized, db, handlers>>
  /\ KeepFetchedFor(NoUser)

\* ---- the system ---------------------------------------------------------
\* some suspended call continues with the response to its remote call
Continue ==
  \/ FetchFound
  \/ FetchNotFound
  \/ FetchSelectError
  \/ FetchCreated
  \/ FetchCreateError
  \/ \E i \in Ids : InitializeSession(i)
  \/ \E e \in BOOLEAN : InitializeNoSession(e)
  \/ \E m \in ThrownMsgs : InitializeThrows(m)
  \/ InitializeSubscribe
  \/ \E m \in ThrownMsgs : InitializeSubscribeThrows(m)
  \/ \E m \in AuthErrMsgs : LoginError(m)
  \/ \E i \in Ids : LoginSuccess(i)
  \/ LoginNoUser
  \/ \E m \in RemoteErrMsgs : SignupError(m)
  \/ \E i \in Ids : SignupPending(i)
  \/ \E i \in Ids : SignupSuccess(i)
  \/ SignupNoUser
  \/ LogoutSuccess
  \/ \E m \in RemoteErrMsgs : LogoutError(m)
  \/ UpdateProfileSuccess
  \/ \E m \in RemoteErrMsgs : UpdateProfileError(m)

\* a call made by the UI, or an event pushed by the provider
Invoke ==
  \/ InitializeStart
  \/ LoginStart
  \/ SignupStart
  \/ LogoutStart
  \/ FetchProfileStart
  \/ FetchProfileNoUser
  \/ \E n \in Names : UpdateProfileStart(n)
  \/ UpdateProfileNoUser
  \/ ClearError
  \/ \E ev \in Events, i \in Ids : NotifyFetch(ev, i)
  \/ \E ev \in Events, i \in Ids : NotifySession(ev, i)
  \/ NotifySignedOut

Next == Invoke \/ Continue

Spec == Init /\ [][Next]_vars

\* every remote call is answered: while calls are suspended, one of them
\* continues (a behaviour makes at most MaxOps calls, so each of them does)
FairSpec == Spec /\ WF_vars(Continue)

\* the same system with the history of fetchProfile() calls kept
TrackedSpec == InitTracked /\ [][Next]_vars

\* ======================= the claims ======================================

\* the call r takes this step: it goes on or returns
Moves(r) == CopiesIn(r, calls') < CopiesIn(r, calls)

\* the call r returns in this step
Returns(r) ==
  /\ Moves(r)
  /\ BagCardinality(calls') < BagCardinality(calls)

\* the number of calls in flight that satisfy P(_)
NumberOf(P(_)) ==
  LET S == {r \in InFlight : P(r)}
      Sum[T \in SUBSET S] ==
        IF T = {} THEN 0
        ELSE LET r == CHOOSE x \in T : TRUE
             IN  CopiesIn(r, calls) + Sum[T \ {r}]
  IN  Sum[S]

\* C1: in every reachable state user == null implies profile == null, also
\* when a fetchProfile or updateProfile response lands after a logout or a
\* signed-out notification.
C1_NoUserNoProfile ==
  user = NoUser => profile = NoProfile

\* C2: in every reachable state a stored profile belongs to the current
\* user: profile != null implies profile.id == user.id.
C2_ProfileOfUser ==
  profile # NoProfile => profile.id = user

\* C3: when a signed-out notification was delivered while an updateProfile
\* call was suspended on its update, profile == null once that call has
\* completed.
C3_SignedOutDiscardsUpdate ==
  [][\A r \in InFlight :
       (r.op = "updateProfile" /\ r.sawSignOut /\ Returns(r))
       => profile' = NoProfile]_vars

\* C4: of the fetchProfile runs in flight for one identity at most one has
\* issued an insert: a second run that also saw not-found does not insert.
C4_OneInsertPerIdentity ==
  \A i \in Ids :
    LET Inserting(r) == r.pc = "fp_insert" /\ r.uid = i
    IN  NumberOf(Inserting) <= 1

\* C5 as stated: whenever a logout call made after a login has completed,
\* user, profile and session are null.
C5_LogoutAfterLoginClears ==
  (last.op = "logout" /\ last.afterLogin)
  => (user = NoUser /\ profile = NoProfile /\ session = NoUser)

\* C5 amended: whenever a logout call made after a login has completed and
\* its provider sign-out succeeded, user, profile and session are null.
C5_SuccessfulLogoutAfterLoginClears ==
  (last.op = "logout" /\ last.afterLogin /\ last.path = "ok")
  => (user = NoUser /\ profile = NoProfile /\ session = NoUser)

\* a logout made right after a login that stored a user has succeeded, with
\* a profile row of that login's identity in the table
C5_Witness ==
  /\ last.op = "logout" /\ last.afterLogin /\ last.path = "ok"
  /\ user = NoUser /\ profile = NoProfile /\ session = NoUser
  /\ \E i \in Ids : db[i] # NoProfile

\* an initialize call is in flight
InitializeInFlight == \E r \in InFlight : r.op = "initialize"

\* C6: every initialize call eventually completes, resolved, with
\* isInitialized == true at completion on every path; and isInitialized,
\* once true, is never set back to false.  (While initialize calls are in
\* flight one of them completes, so each of them does.)
C6_InitializeCompletes ==
  /\ InitializeInFlight
       ~> (/\ last.op = "initialize"
           /\ last.res = "resolved"
           /\ isInitialized)
  /\ [][\A r \in InFlight :
          (r.op = "initialize" /\ Returns(r)) =>
             (last'.op = "initialize" /\ last'.res = "resolved" /\ isInitialized')]_vars
  /\ [][isInitialized => isInitialized']_vars

\* an initialize whose getSession threw has completed, initialized
C6_Witness ==
  /\ last.op = "initialize" /\ last.path = "threw" /\ last.res = "resolved"
  /\ isInitialized
  /\ error # NoError

\* C7: login, signup, logout and updateProfile reject when their remote call
\* fails.
C7_FailurePropagates ==
  (last.op \in {"login", "signup", "logout", "updateProfile"} /\ last.path = "error")
  => last.res = "rejected"

\* the step in which a logout call starts
LogoutStartStep ==
  \E r \in BagToSet(calls') :
    r.op = "logout" /\ CopiesIn(r, calls') > CopiesIn(r, calls)

\* the step in which a logout call completes after signOut failed
LogoutFailStep ==
  /\ \E r \in InFlight : r.op = "logout" /\ Returns(r)
  /\ last'.op = "logout" /\ last'.path = "error"

\* C8: a logout whose sign-out fails sets error to a message and leaves
\* user, profile and session as they were: neither its first step nor its
\* failure step changes them.
C8_LogoutFailureKeepsState ==
  [][/\ LogoutStartStep =>
          (user' = user /\ profile' = profile /\ session' = session)
     /\ LogoutFailStep =>
          (/\ error' # NoError
           /\ user' = user /\ profile' = profile /\ session' = session)]_vars

\* a logout has just failed with a user and a profile stored
C8_Witness ==
  /\ last.op = "logout" /\ last.path = "error"
  /\ error # NoError
  /\ user # NoUser /\ session # NoUser /\ profile # NoProfile

\* the step in which a fetchProfile run issues its insert
InsertIssuedStep ==
  \E r \in BagToSet(calls') :
    r.pc = "fp_insert" /\ CopiesIn(r, calls') > CopiesIn(r, calls)

\* C9: a fetchProfile run whose lookup fails with another error than
\* not-found, or whose insert fails, ends without raising, leaves profile,
\* error and the table as they were and issues no insert; and an insert is
\* issued only by a run whose lookup found no row.
C9_FetchBestEffort ==
  [][/\ last'.fp \in {"fetchError", "createError"} =>
          (/\ profile' = profile
           /\ error' = error
           /\ db' = db
           /\ last'.res # "rejected"
           /\ ~InsertIssuedStep)
     /\ InsertIssuedStep =>
          \E r \in InFlight :
            /\ r.pc = "fp_select" /\ Moves(r)
            /\ db[r.uid] = NoProfile]_vars

\* a lookup has just failed with a profile and an error message stored
C9_Witness ==
  /\ last.fp = "fetchError"
  /\ last.res = "resolved"
  /\ profile # NoProfile
  /\ error # NoError

\* C10: a signup whose identity comes back unconfirmed leaves user and
\* session as they were, sets error to the confirmation-pending message and
\* isLoading to false, and resolves.
C10_SignupPending ==
  [][(last'.op = "signup" /\ last'.path = "pending") =>
       (/\ user' = user
        /\ session' = session
        /\ error' = ConfirmationPendingMsg
        /\ isLoading' = FALSE
        /\ last'.res = "resolved")]_vars

\* an unauthenticated signup has just ended pending confirmation
C10_Witness ==
  /\ last.op = "signup" /\ last.path = "pending" /\ last.res = "resolved"
  /\ user = NoUser /\ session = NoUser
  /\ error = ConfirmationPendingMsg
  /\ ~isLoading

\* the step in which a call of operation op starts and is suspended
StartStep(op) ==
  /\ BagCardinality(calls') > BagCardinality(calls)
  /\ \E r \in BagToSet(calls') :
       r.op = op /\ CopiesIn(r, calls') > CopiesIn(r, calls)

\* the step in which a login call completes after its sign-in failed
LoginFailStep ==
  /\ \E r \in InFlight : r.op = "login" /\ r.pc = "signIn" /\ Returns(r)
  /\ last'.op = "login" /\ last'.path = "error"

\* C11: a login whose sign-in fails completes with error set to a message
\* and isLoading false, rejects, and leaves user and session as they were:
\* neither its first step nor its failure step changes them.
C11_LoginFailure ==
  [][/\ StartStep("login") => (user' = user /\ session' = session)
     /\ LoginFailStep =>
          (/\ error' # NoError
           /\ error' # ""
           /\ isLoading' = FALSE
           /\ user' = user /\ session' = session
           /\ last'.res = "rejected")]_vars

\* a login has just been rejected for an unconfirmed email, with the user
\* and session stored before it still in place
C11_Witness ==
  /\ last.op = "login" /\ last.path = "error" /\ last.res = "rejected"
  /\ error = ConfirmEmailMsg
  /\ ~isLoading
  /\ user # NoUser /\ session = user

\* C12: whenever an initialize call has just completed, exactly one
\* identity-change handler is registered.
C12_OneSubscription ==
  last.op = "initialize" => handlers = 1

\* a step of an updateProfile call: its first step (suspended or returning
\* at once) or the continuation after its update
UpdateProfileStep ==
  \/ StartStep("updateProfile")
  \/ last'.op = "updateProfile" /\ last'.path = "noUser"
  \/ \E r \in InFlight : r.op = "updateProfile" /\ Returns(r)

\* C13: no step of an updateProfile call changes user, session or
\* isInitialized.
C13_UpdateProfileFrame ==
  [][UpdateProfileStep =>
       (/\ user' = user
        /\ session' = session
        /\ isInitialized' = isInitialized)]_vars

\* an updateProfile has just failed with a user and a session stored
C13_Witness ==
  /\ last.op = "updateProfile" /\ last.path = "error"
  /\ user # NoUser /\ session = user
  /\ isInitialized

\* the fetchProfile() call r completes and is the second of two: it started
\* after another call for the same user had completed, and no updateProfile
\* step and no change of user has happened since that completion
SecondFetchReturns(r) ==
  /\ r.op = "fetchProfile"
  /\ Returns(r)
  /\ r.first \notin {NoFetch, Untracked}
  /\ r.first = fetched

\* how a fetchProfile run ends when its lookup, or its insert, succeeded
Fetched == {"found", "created"}

\* C14 as stated: the second of two fetchProfile() calls leaves the profile
\* the first one left.
C14_FetchIdempotent ==
  [][\A r \in InFlight :
       SecondFetchReturns(r) => profile' = r.first.profile]_vars

\* C14 amended: the second of two fetchProfile() calls leaves the profile the
\* first one left, when no repository request of either call failed.
C14_SuccessfulFetchIdempotent ==
  [][\A r \in InFlight :
       (/\ SecondFetchReturns(r)
        /\ r.first.fp \in Fetched
        /\ last'.fp \in Fetched)
       => profile' = r.first.profile]_vars

\* a second fetchProfile() call has just found the row that the first one
\* created, and the user's profile is stored
C14_Witness ==
  /\ last.op = "fetchProfile" /\ last.fp = "found"
  /\ fetched.prev = "created"
  /\ fetched.uid = user
  /\ profile = fetched.profile
  /\ profile = db[user]

\* a login, signup, logout or updateProfile call is in flight
GatingInFlight ==
  \E r \in InFlight : r.op \in {"login", "signup", "logout", "updateProfile"}

\* C15: whenever no login, signup, logout or updateProfile call is in
\* flight, isLoading == false.
C15_IdleNotLoading ==
  ~GatingInFlight => ~isLoading

====
